---- MODULE Spec2Model ----
(***************************************************************************)
(* Model of power-http-server: the request parser and response encoder of  *)
(* src/src/httpParser.ts and the per-connection data handler of            *)
(* src/src/server.ts.                                                      *)
(*                                                                         *)
(* A Buffer is a sequence of bytes (0..255); a JavaScript string is a      *)
(* sequence of code points.  Indices are 0-based as in the source; the     *)
(* helpers below translate them to TLA+'s 1-based sequences.               *)
(*                                                                         *)
(* A `const x = e; body` of the source is written                          *)
(*     Once({ body : x \in {e} })                                          *)
(* which evaluates e a single time, however often body reads x.            *)
(***************************************************************************)
EXTENDS Integers, Sequences, FiniteSets, TLC

VARIABLES data, sock, out, budget, base, starts, last, encoded, decoded

vars == <<data, sock, out, budget, base, starts, last, encoded, decoded>>

\* The element of a one-element set.
Once(S) == CHOOSE x \in S : TRUE

(***************************************************************************)
(* String literals.  PrintableAscii lists the characters 32..126 in code   *)
(* order, so the code of a character is its position + 31 (the double      *)
(* quote, the backslash and the backtick are spelled out).                  *)
(***************************************************************************)
PrintableAscii ==
  << " ", "!", "quote", "#", "$", "%", "&", "'", "(", ")", "*", "+", ",", "-", ".", "/",
     "0", "1", "2", "3", "4", "5", "6", "7", "8", "9", ":", ";", "<", "=", ">", "?",
     "@", "A", "B", "C", "D", "E", "F", "G", "H", "I", "J", "K", "L", "M", "N", "O",
     "P", "Q", "R", "S", "T", "U", "V", "W", "X", "Y", "Z", "[", "backslash", "]", "^", "_",
     "backtick", "a", "b", "c", "d", "e", "f", "g", "h", "i", "j", "k", "l", "m", "n", "o",
     "p", "q", "r", "s", "t", "u", "v", "w", "x", "y", "z", "{", "|", "}", "~" >>

Ord(ch) == 31 + (CHOOSE i \in 1..Len(PrintableAscii) : PrintableAscii[i] = ch)

\* The code points (equally, the UTF-8 bytes) of an ASCII literal given
\* character by character.
Str(chars) == [i \in 1..Len(chars) |-> Ord(chars[i])]

CRLF == <<13, 10>>

\* '\r\n\r\n', the header/body separator.
SEPARATOR == CRLF \o CRLF

\* Short literals of the source.
COLON == Str(<<":">>)

SPACE == Str(<<" ">>)

ZERO == Str(<<"0">>)

ROOT_PATH == Str(<<"/">>)

COLON_SPACE == Str(<<":"," ">>)

Min(a, b) == IF a <= b THEN a ELSE b

Max(a, b) == IF a >= b THEN a ELSE b

\* The least and the greatest element of a non-empty set of integers.
Least(S) == CHOOSE i \in S : \A j \in S : i <= j

Greatest(S) == CHOOSE i \in S : \A j \in S : i >= j

(***************************************************************************)
(* JavaScript library functions the source calls, each computed as the     *)
(* language defines it.                                                    *)
(***************************************************************************)

\* Buffer.prototype.slice(start, end): a negative index counts from the end,
\* indices are clamped to [0, length], and end <= start gives the empty
\* buffer.
Slice(buf, start, end) ==
  LET n == Len(buf)
      s == IF start < 0 THEN Max(n + start, 0) ELSE Min(start, n)
      e == IF end < 0 THEN Max(n + end, 0) ELSE Min(end, n)
  IN  IF e <= s THEN <<>> ELSE SubSeq(buf, s + 1, e)

\* Buffer.prototype.slice(start).
SliceFrom(buf, start) == Slice(buf, start, Len(buf))

\* String.prototype.indexOf / Buffer.prototype.indexOf: the 0-based position
\* of the first occurrence of pat, or -1.
IndexOf(s, pat) ==
  Once({ Once({ IF hits = {} THEN -1 ELSE Least(hits) :
                hits \in { { i \in 0..(Len(t) - Len(pat)) :
                               SubSeq(t, i + 1, i + Len(pat)) = pat } } }) :
         t \in {s} })

\* String.prototype.split(sep) for a non-empty separator.
RECURSIVE Split(_, _)
Split(s, sep) ==
  Once({ Once({ IF i = -1 THEN <<t>>
                ELSE <<SubSeq(t, 1, i)>>
                       \o Split(SubSeq(t, i + Len(sep) + 1, Len(t)), sep) :
                i \in {IndexOf(t, sep)} }) :
         t \in {s} })

\* Array.prototype.join(sep) on an array of strings.
RECURSIVE Join(_, _)
Join(parts, sep) ==
  Once({ IF Len(p) = 0 THEN <<>>
         ELSE IF Len(p) = 1 THEN p[1]
         ELSE p[1] \o sep \o Join(Tail(p), sep) :
         p \in {parts} })

\* Buffer.prototype.toString('utf-8') for buffers whose bytes are below 0xE0:
\* an ASCII byte is its own code point, a lead byte 0xC2..0xDF followed by a
\* continuation byte 0x80..0xBF is one code point, and every other byte is
\* replaced by U+FFFD.  (Three- and four-byte sequences are outside the
\* modelled alphabet.)  A lead byte is never itself a continuation, so
\* whether a byte is the second byte of a character depends only on the byte
\* before it.
Utf8Decode(buf) ==
  Once({ LET IsLead(i) == b[i] >= 194 /\ b[i] <= 223
             IsCont(i) == b[i] >= 128 /\ b[i] <= 191
             Taken(i) == i > 1 /\ IsCont(i) /\ IsLead(i - 1)
             IsChar(x) == x # -1
         IN  SelectSeq([i \in 1..Len(b) |->
                          IF Taken(i) THEN -1
                          ELSE IF b[i] < 128 THEN b[i]
                          ELSE IF IsLead(i) /\ i < Len(b) /\ IsCont(i + 1)
                               THEN (b[i] - 192) * 64 + (b[i + 1] - 128)
                          ELSE 65533],
                       IsChar) :
         b \in {buf} })

\* The UTF-8 bytes of one code point of the Basic Multilingual Plane.
Utf8Bytes(c) ==
  IF c < 128 THEN <<c>>
  ELSE IF c < 2048 THEN <<192 + (c \div 64), 128 + (c % 64)>>
  ELSE <<224 + (c \div 4096), 128 + ((c \div 64) % 64), 128 + (c % 64)>>

\* Buffer.from(str, 'utf-8') (computed by halving: the bytes of a string are
\* those of its halves).
RECURSIVE Utf8Encode(_)
Utf8Encode(s) ==
  Once({ IF Len(t) = 0 THEN <<>>
         ELSE IF Len(t) = 1 THEN Utf8Bytes(t[1])
         ELSE Utf8Encode(SubSeq(t, 1, Len(t) \div 2))
                \o Utf8Encode(SubSeq(t, (Len(t) \div 2) + 1, Len(t))) :
         t \in {s} })

\* String.prototype.toLowerCase, the Unicode default case conversion, for
\* strings of code points below U+0800 (the characters of one or two UTF-8
\* bytes).  LowerRuns lists the code points at or above U+0080 whose lower
\* case is another single code point, as runs <<first, last, step, delta>>:
\* every step-th code point from first to last maps to itself plus delta.
LowerRuns ==
  << <<192, 214, 1, 32>>, <<216, 222, 1, 32>>, <<256, 302, 2, 1>>,
    <<306, 310, 2, 1>>, <<313, 327, 2, 1>>, <<330, 374, 2, 1>>,
    <<376, 376, 1, -121>>, <<377, 381, 2, 1>>, <<385, 385, 1, 210>>,
    <<386, 388, 2, 1>>, <<390, 390, 1, 206>>, <<391, 391, 1, 1>>,
    <<393, 394, 1, 205>>, <<395, 395, 1, 1>>, <<398, 398, 1, 79>>,
    <<399, 399, 1, 202>>, <<400, 400, 1, 203>>, <<401, 401, 1, 1>>,
    <<403, 403, 1, 205>>, <<404, 404, 1, 207>>, <<406, 406, 1, 211>>,
    <<407, 407, 1, 209>>, <<408, 408, 1, 1>>, <<412, 412, 1, 211>>,
    <<413, 413, 1, 213>>, <<415, 415, 1, 214>>, <<416, 420, 2, 1>>,
    <<422, 422, 1, 218>>, <<423, 423, 1, 1>>, <<425, 425, 1, 218>>,
    <<428, 428, 1, 1>>, <<430, 430, 1, 218>>, <<431, 431, 1, 1>>,
    <<433, 434, 1, 217>>, <<435, 437, 2, 1>>, <<439, 439, 1, 219>>,
    <<440, 440, 1, 1>>, <<444, 444, 1, 1>>, <<452, 452, 1, 2>>,
    <<453, 453, 1, 1>>, <<455, 455, 1, 2>>, <<456, 456, 1, 1>>,
    <<458, 458, 1, 2>>, <<459, 475, 2, 1>>, <<478, 494, 2, 1>>,
    <<497, 497, 1, 2>>, <<498, 500, 2, 1>>, <<502, 502, 1, -97>>,
    <<503, 503, 1, -56>>, <<504, 542, 2, 1>>, <<544, 544, 1, -130>>,
    <<546, 562, 2, 1>>, <<570, 570, 1, 10795>>, <<571, 571, 1, 1>>,
    <<573, 573, 1, -163>>, <<574, 574, 1, 10792>>, <<577, 577, 1, 1>>,
    <<579, 579, 1, -195>>, <<580, 580, 1, 69>>, <<581, 581, 1, 71>>,
    <<582, 590, 2, 1>>, <<880, 882, 2, 1>>, <<886, 886, 1, 1>>,
    <<895, 895, 1, 116>>, <<902, 902, 1, 38>>, <<904, 906, 1, 37>>,
    <<908, 908, 1, 64>>, <<910, 911, 1, 63>>, <<913, 929, 1, 32>>,
    <<931, 939, 1, 32>>, <<975, 975, 1, 8>>, <<984, 1006, 2, 1>>,
    <<1012, 1012, 1, -60>>, <<1015, 1015, 1, 1>>, <<1017, 1017, 1, -7>>,
    <<1018, 1018, 1, 1>>, <<1021, 1023, 1, -130>>, <<1024, 1039, 1, 80>>,
    <<1040, 1071, 1, 32>>, <<1120, 1152, 2, 1>>, <<1162, 1214, 2, 1>>,
    <<1216, 1216, 1, 15>>, <<1217, 1229, 2, 1>>, <<1232, 1326, 2, 1>>,
    <<1329, 1366, 1, 48>> >>

\* The lower case of a code point other than U+0130 and U+03A3.
LowerCode(c) ==
  IF c < 128 THEN (IF c >= 65 /\ c <= 90 THEN c + 32 ELSE c)
  ELSE Once({ IF hits = {} THEN c ELSE c + LowerRuns[Least(hits)][4] :
              hits \in { { r \in 1..Len(LowerRuns) :
                             /\ LowerRuns[r][1] <= c
                             /\ c <= LowerRuns[r][2]
                             /\ (c - LowerRuns[r][1]) % LowerRuns[r][3] = 0 } } })

\* The code points below U+0800 that are case-ignorable, and those that are
\* cased without being case-ignorable (Unicode DerivedCoreProperties).
CaseIgnorable ==
  UNION { {39}, {46}, {58}, {94}, {96}, {168}, {173}, {175}, {180},
    (183..184), (688..879), (884..885), {890}, (900..901), {903},
    (1155..1161), {1369}, {1375}, (1425..1469), {1471}, (1473..1474),
    (1476..1477), {1479}, {1524}, (1536..1541), (1552..1562), {1564}, {1600},
    (1611..1631), {1648}, (1750..1757), (1759..1768), (1770..1773), {1807},
    {1809}, (1840..1866), (1958..1968), (2027..2037), {2042}, {2045} }

Cased ==
  UNION { (65..90), (97..122), {170}, {181}, {186}, (192..214), (216..246),
    (248..442), (444..447), (452..659), (662..687), (880..883), (886..887),
    (891..893), {895}, {902}, (904..906), {908}, (910..929), (931..1013),
    (1015..1153), (1162..1327), (1329..1366), (1376..1416) }

\* The Final_Sigma condition of Unicode's SpecialCasing at position i of t:
\* skipping case-ignorable characters, a cased letter comes before and none
\* comes after.
FinalSigma(t, i) ==
  Once({ Once({ /\ before # {} /\ t[Greatest(before)] \in Cased
                /\ after = {} \/ t[Least(after)] \notin Cased :
                after \in { { j \in (i + 1)..Len(t) : t[j] \notin CaseIgnorable } } }) :
         before \in { { j \in 1..(i - 1) : t[j] \notin CaseIgnorable } } })

\* The concatenation of a sequence of sequences (by halving).
RECURSIVE Flatten(_)
Flatten(seqs) ==
  Once({ IF Len(q) = 0 THEN <<>>
         ELSE IF Len(q) = 1 THEN q[1]
         ELSE Flatten(SubSeq(q, 1, Len(q) \div 2))
                \o Flatten(SubSeq(q, (Len(q) \div 2) + 1, Len(q))) :
         q \in {seqs} })

\* U+0130 becomes the two code points U+0069 U+0307, and U+03A3 becomes
\* U+03C2 where it is a final sigma and U+03C3 elsewhere; every other code
\* point becomes one code point.
ToLowerCase(s) ==
  Once({ IF \A i \in 1..Len(t) : t[i] \notin {304, 931}
         THEN [i \in 1..Len(t) |-> LowerCode(t[i])]
         ELSE Flatten([i \in 1..Len(t) |->
                         IF t[i] = 304 THEN <<105, 775>>
                         ELSE IF t[i] = 931
                              THEN (IF FinalSigma(t, i) THEN <<962>> ELSE <<963>>)
                         ELSE <<LowerCode(t[i])>>]) :
         t \in {s} })

\* String.prototype.substring(start, end): each index is clamped to
\* [0, length] and the two are swapped when start is the greater.
Substring(s, start, end) ==
  Once({ Once({ SubSeq(s, Min(a, b) + 1, Max(a, b)) :
                b \in {Max(0, Min(end, Len(s)))} }) :
         a \in {Max(0, Min(start, Len(s)))} })

\* The code points String.prototype.trim removes and parseInt skips
\* (WhiteSpace and LineTerminator of ECMAScript).
WhiteSpace ==
  {9, 10, 11, 12, 13, 32, 160, 5760, 8232, 8233, 8239, 8287, 12288, 65279}
    \cup (8192..8202)

\* String.prototype.trim.
Trim(s) ==
  Once({ Once({ IF keep = {} THEN <<>> ELSE SubSeq(t, Least(keep), Greatest(keep)) :
                keep \in { { i \in 1..Len(t) : t[i] \notin WhiteSpace } } }) :
         t \in {s} })

\* String.prototype.trimStart.
TrimStart(s) ==
  Once({ Once({ IF keep = {} THEN <<>> ELSE SubSeq(t, Least(keep), Len(t)) :
                keep \in { { i \in 1..Len(t) : t[i] \notin WhiteSpace } } }) :
         t \in {s} })

IsDigit(c) == c >= 48 /\ c <= 57

\* The value of a run of decimal digits.
RECURSIVE DigitsValue(_)
DigitsValue(s) ==
  Once({ IF Len(d) = 0 THEN 0
         ELSE DigitsValue(SubSeq(d, 1, Len(d) - 1)) * 10 + (d[Len(d)] - 48) :
         d \in {s} })

\* The longest prefix of u made of decimal digits.
LeadingDigits(s) ==
  Once({ Once({ IF stops = {} THEN u ELSE SubSeq(u, 1, Least(stops) - 1) :
                stops \in { { i \in 1..Len(u) : ~IsDigit(u[i]) } } }) :
         u \in {s} })

\* parseInt(str, 10): leading white space is skipped, an optional sign is
\* read, then the longest run of decimal digits; what follows is ignored.
\* No digit at all gives NaN.
ParseInt(str) ==
  Once({ Once({ IF Len(digits) = 0 THEN [nan |-> TRUE, val |-> 0]
                ELSE IF Len(t) > 0 /\ t[1] = 45
                     THEN [nan |-> FALSE, val |-> 0 - DigitsValue(digits)]
                ELSE [nan |-> FALSE, val |-> DigitsValue(digits)] :
                digits \in { LeadingDigits(IF Len(t) > 0 /\ t[1] \in {43, 45}
                                           THEN Tail(t) ELSE t) } }) :
         t \in {TrimStart(str)} })

\* Number.prototype.toString() of an integer.
RECURSIVE NatToStr(_)
NatToStr(n) ==
  IF n < 10 THEN <<48 + n>> ELSE NatToStr(n \div 10) \o <<48 + (n % 10)>>

IntToStr(n) == IF n < 0 THEN <<45>> \o NatToStr(0 - n) ELSE NatToStr(n)

\* String.prototype.startsWith.
StartsWith(s, pre) == Len(s) >= Len(pre) /\ SubSeq(s, 1, Len(pre)) = pre

\* String.prototype.includes.
Includes(s, pat) == IndexOf(s, pat) # -1

(***************************************************************************)
(* HttpRequestParser (src/src/httpParser.ts).                              *)
(***************************************************************************)

\* Maximum body size when Content-Length is not specified.
MAX_BODY_SIZE == 8192

\* The method list with TRACE added.
SupportedMethodsWithTrace ==
  { Str(<<"G","E","T">>), Str(<<"P","O","S","T">>), Str(<<"P","U","T">>), Str(<<"D","E","L","E","T","E">>), Str(<<"P","A","T","C","H">>), Str(<<"O","P","T","I","O","N","S">>), Str(<<"H","E","A","D">>), Str(<<"T","R","A","C","E">>) }

\* The methods the request line may carry.
SupportedMethods ==
  { Str(<<"G","E","T">>), Str(<<"P","O","S","T">>), Str(<<"P","U","T">>), Str(<<"D","E","L","E","T","E">>), Str(<<"P","A","T","C","H">>), Str(<<"O","P","T","I","O","N","S">>), Str(<<"H","E","A","D">>) }

MSG_NoHeaders == Str(<<"I","n","v","a","l","i","d"," ","H","T","T","P"," ","R","e","q","u","e","s","t",":"," ","N","o"," ","h","e","a","d","e","r","s"," ","f","o","u","n","d">>)

MSG_NoRequestLine == Str(<<"I","n","v","a","l","i","d"," ","r","e","q","u","e","s","t",":"," ","N","o"," ","r","e","q","u","e","s","t"," ","l","i","n","e">>)

MSG_RequestLine == Str(<<"I","n","v","a","l","i","d"," ","r","e","q","u","e","s","t"," ","l","i","n","e">>)

MSG_Method == Str(<<"U","n","s","u","p","p","o","r","t","e","d"," ","H","T","T","P"," ","m","e","t","h","o","d",":"," ">>)

MSG_Chunked == Str(<<"C","h","u","n","k","e","d"," ","e","n","c","o","d","i","n","g"," ","n","o","t"," ","s","u","p","p","o","r","t","e","d">>)

MSG_ContentLength == Str(<<"I","n","v","a","l","i","d"," ","C","o","n","t","e","n","t","-","L","e","n","g","t","h"," ","h","e","a","d","e","r">>)

MSG_IncompleteBody == Str(<<"I","n","c","o","m","p","l","e","t","e"," ","b","o","d","y"," ","b","a","s","e","d"," ","o","n"," ","C","o","n","t","e","n","t","-","L","e","n","g","t","h">>)

H_transfer_encoding == Str(<<"t","r","a","n","s","f","e","r","-","e","n","c","o","d","i","n","g">>)

H_content_length == Str(<<"c","o","n","t","e","n","t","-","l","e","n","g","t","h">>)

H_content_type == Str(<<"c","o","n","t","e","n","t","-","t","y","p","e">>)

H_connection == Str(<<"c","o","n","n","e","c","t","i","o","n">>)

V_chunked == Str(<<"c","h","u","n","k","e","d">>)

V_keep_alive == Str(<<"k","e","e","p","-","a","l","i","v","e">>)

V_text_slash == Str(<<"t","e","x","t","/">>)

V_json == Str(<<"j","s","o","n">>)

\* throw new Error(message): the outcome of a parse that raised.
Throw(message) == [ok |-> FALSE, message |-> message]

\* A value of type string | undefined.
Undefined == [defined |-> FALSE, v |-> <<>>]

Some(v) == [defined |-> TRUE, v |-> v]

\* Values that are no strings: a function and an object.  Their codes are
\* negative, which keeps them apart from every string; both are truthy.
FunctionValue == <<-1>>

ObjectValue == <<-2>>

PROTO == Str(<<"_","_","p","r","o","t","o","_","_">>)

\* The properties every object literal inherits from Object.prototype: all
\* are functions but __proto__, an accessor that gives the prototype.
ObjectPrototypeNames ==
  { Str(<<"c","o","n","s","t","r","u","c","t","o","r">>), PROTO, Str(<<"h","a","s","O","w","n","P","r","o","p","e","r","t","y">>), Str(<<"i","s","P","r","o","t","o","t","y","p","e","O","f">>),
    Str(<<"p","r","o","p","e","r","t","y","I","s","E","n","u","m","e","r","a","b","l","e">>), Str(<<"t","o","L","o","c","a","l","e","S","t","r","i","n","g">>), Str(<<"t","o","S","t","r","i","n","g">>), Str(<<"v","a","l","u","e","O","f">>),
    Str(<<"_","_","d","e","f","i","n","e","G","e","t","t","e","r","_","_">>), Str(<<"_","_","d","e","f","i","n","e","S","e","t","t","e","r","_","_">>), Str(<<"_","_","l","o","o","k","u","p","G","e","t","t","e","r","_","_">>),
    Str(<<"_","_","l","o","o","k","u","p","S","e","t","t","e","r","_","_">>) }

\* A JavaScript object literal used as a string-keyed map: a function from
\* its own keys to their values.  obj[key] = value adds the key or overwrites
\* its value, except for the key __proto__: the assignment runs the inherited
\* setter, which ignores a string, and the object keeps its own keys.
EmptyObject == [k \in {} |-> <<>>]

Put(obj, key, value) ==
  IF key = PROTO THEN obj
  ELSE [k \in DOMAIN obj \cup {key} |-> IF k = key THEN value ELSE obj[k]]

\* obj[key]: the value of an own key; for a key the object does not own, the
\* property inherited from Object.prototype, or undefined.
Get(obj, key) ==
  IF key \in DOMAIN obj THEN Some(obj[key])
  ELSE IF key = PROTO THEN Some(ObjectValue)
  ELSE IF key \in ObjectPrototypeNames THEN Some(FunctionValue)
  ELSE Undefined

\* Truthiness of a string | undefined: undefined and '' are falsy.
Truthy(x) == x.defined /\ x.v # <<>>

\* The reduce step without the lowercasing of the key.
HeaderLineKeepsCase(acc, line) ==
  IF Trim(line) = <<>> THEN acc
  ELSE Once({ IF parts[1] # <<>>
              THEN Put(acc, Trim(parts[1]), Trim(Join(Tail(parts), COLON)))
              ELSE acc :
              parts \in {Split(line, COLON)} })

\* One step of the reduce that builds the headers: a blank line is skipped,
\* otherwise the line is split on ':', the first part is the key (lowercased,
\* then trimmed) and the other parts, joined again with ':' and trimmed, are
\* the value.  A line that starts with ':' has an empty key and is dropped.
HeaderLine(acc, line) ==
  IF Trim(line) = <<>> THEN acc
  ELSE Once({ IF parts[1] # <<>>
              THEN Put(acc, Trim(ToLowerCase(parts[1])), Trim(Join(Tail(parts), COLON)))
              ELSE acc :
              parts \in {Split(line, COLON)} })

\* lines.slice(1).reduce(..., {}).
RECURSIVE ParseHeaders(_, _)
ParseHeaders(acc, lines) ==
  IF Len(lines) = 0 THEN acc
  ELSE Once({ ParseHeaders(next, Tail(lines)) : next \in {HeaderLine(acc, lines[1])} })

\* Whether the body is converted to a string: the content type starts with
\* 'text/' or includes 'json'.
IsTextType(headers) ==
  Once({ StartsWith(contentType, V_text_slash) \/ Includes(contentType, V_json) :
         contentType \in { IF Truthy(Get(headers, H_content_type))
                           THEN headers[H_content_type] ELSE <<>> } })

\* An input of parse, string | Buffer: [isString, v] with the code points of
\* the string or the bytes of the Buffer.
BufferInput(buf) == [isString |-> FALSE, v |-> buf]

StringInput(str) == [isString |-> TRUE, v |-> str]

\* The end of parse: the body is the slice of the Buffer, or the substring
\* of the string, of effectiveLength from bodyStart; the truncation flag is
\* set; a body shorter than the Content-Length is an error; and a Buffer body
\* of a text type becomes a string.  (bodyStart is the parse's local of that
\* name, kept for the properties; the source's object has no such field.)
ExtractBody(input, bodyStart, hasLength, effectiveLength, parsed) ==
  Once({ IF hasLength /\ Len(body) < effectiveLength
         THEN Throw(MSG_IncompleteBody)
         ELSE [ok |-> TRUE,
               method |-> parsed.method,
               path |-> parsed.path,
               httpVersion |-> parsed.httpVersion,
               headers |-> parsed.headers,
               body |-> IF input.isString THEN [isString |-> TRUE, v |-> body]
                        ELSE IF IsTextType(parsed.headers)
                        THEN [isString |-> TRUE, v |-> Utf8Decode(body)]
                        ELSE [isString |-> FALSE, v |-> body],
               isTruncated |-> Len(input.v) > bodyStart + effectiveLength,
               bodyStart |-> bodyStart] :
         body \in { IF input.isString
                    THEN Substring(input.v, bodyStart, bodyStart + effectiveLength)
                    ELSE Slice(input.v, bodyStart, bodyStart + effectiveLength) } })

\* Body extraction based on the Content-Length header: the header counts
\* when it is present and not empty; its value is read with parseInt, and NaN
\* is an error; without it the effective length is MAX_BODY_SIZE.
ParseBody(input, headerIndex, parsed) ==
  Once({ IF Truthy(contentLengthStr)
         THEN Once({ IF contentLength.nan THEN Throw(MSG_ContentLength)
                     ELSE ExtractBody(input, headerIndex + 4, TRUE, contentLength.val, parsed) :
                     contentLength \in {ParseInt(contentLengthStr.v)} })
         ELSE ExtractBody(input, headerIndex + 4, FALSE, MAX_BODY_SIZE, parsed) :
         contentLengthStr \in {Get(parsed.headers, H_content_length)} })

\* The header section with a request line of three tokens or more accepted.
ParseHeaderSectionAtLeastThree(input, headerIndex, lines) ==
  IF Len(lines) < 1 THEN Throw(MSG_NoRequestLine)
  ELSE
    Once({ IF Len(requestLineParts) < 3 THEN Throw(MSG_RequestLine)
           ELSE IF requestLineParts[1] \notin SupportedMethods
           THEN Throw(MSG_Method \o requestLineParts[1])
           ELSE
             Once({ IF Get(headers, H_transfer_encoding) = Some(V_chunked)
                    THEN Throw(MSG_Chunked)
                    ELSE ParseBody(input, headerIndex,
                                   [method |-> requestLineParts[1],
                                    path |-> requestLineParts[2],
                                    httpVersion |-> requestLineParts[3],
                                    headers |-> headers]) :
                    headers \in {ParseHeaders(EmptyObject, Tail(lines))} }) :
           requestLineParts \in {Split(lines[1], SPACE)} })

\* The request line and the headers of the header section.
ParseHeaderSection(input, headerIndex, lines) ==
  IF Len(lines) < 1 THEN Throw(MSG_NoRequestLine)
  ELSE
    Once({ IF Len(requestLineParts) # 3 THEN Throw(MSG_RequestLine)
           ELSE IF requestLineParts[1] \notin SupportedMethods
           THEN Throw(MSG_Method \o requestLineParts[1])
           ELSE
             Once({ IF Get(headers, H_transfer_encoding) = Some(V_chunked)
                    THEN Throw(MSG_Chunked)
                    ELSE ParseBody(input, headerIndex,
                                   [method |-> requestLineParts[1],
                                    path |-> requestLineParts[2],
                                    httpVersion |-> requestLineParts[3],
                                    headers |-> headers]) :
                    headers \in {ParseHeaders(EmptyObject, Tail(lines))} }) :
           requestLineParts \in {Split(lines[1], SPACE)} })

\* HttpRequestParser.parse(input): either the populated parser or the Error
\* it throws.  A string is parsed as it is; for a Buffer the separator is
\* looked for in the text decoded from it, and its index there is used on
\* the Buffer.
ParseInput(input) ==
  Once({ Once({ IF headerIndex = -1 THEN Throw(MSG_NoHeaders)
                ELSE Once({ ParseHeaderSection(input, headerIndex, lines) :
                            lines \in {Split(SubSeq(requestString, 1, headerIndex), CRLF)} }) :
                headerIndex \in {IndexOf(requestString, SEPARATOR)} }) :
         requestString \in {IF input.isString THEN input.v ELSE Utf8Decode(input.v)} })

\* HttpRequestParser.parse(data) as the server calls it, on a Buffer.
Parse(buf) == ParseInput(BufferInput(buf))

\* parser.getHeader(key): case-insensitive lookup.
GetHeader(parser, key) == Get(parser.headers, ToLowerCase(key))

\* Standard HTTP status messages for response generation.
statusMessages ==
  [code \in {200, 400, 404, 500} |->
     CASE code = 200 -> Str(<<"O","K">>)
       [] code = 400 -> Str(<<"B","a","d"," ","R","e","q","u","e","s","t">>)
       [] code = 404 -> Str(<<"N","o","t"," ","F","o","u","n","d">>)
       [] code = 500 -> Str(<<"I","n","t","e","r","n","a","l"," ","S","e","r","v","e","r"," ","E","r","r","o","r">>)]

\* The reason phrase of a status code the table does not hold.
REASON_OK == Str(<<"O","K">>)

HTTP_VERSION_PREFIX == Str(<<"H","T","T","P","/","1",".","1"," ">>)

N_Content_Length == Str(<<"C","o","n","t","e","n","t","-","L","e","n","g","t","h">>)

N_Content_Type == Str(<<"C","o","n","t","e","n","t","-","T","y","p","e">>)

N_Connection == Str(<<"C","o","n","n","e","c","t","i","o","n">>)

N_Keep_Alive == Str(<<"K","e","e","p","-","A","l","i","v","e">>)

V_text_plain == Str(<<"t","e","x","t","/","p","l","a","i","n">>)

V_close == Str(<<"c","l","o","s","e">>)

V_keep_alive_params == Str(<<"t","i","m","e","o","u","t","=","5",","," ","m","a","x","=","1","0","0","0">>)

\* An assignment that appends even when the name exists.
SetEntryAppends(entries, name, value) == Append(entries, <<name, value>>)

\* An object literal with insertion order: a sequence of <<name, value>>
\* entries.  Assigning an existing name replaces its value in place; a new
\* name is appended.
SetEntry(entries, name, value) ==
  IF \E i \in 1..Len(entries) : entries[i][1] = name
  THEN [i \in 1..Len(entries) |->
          IF entries[i][1] = name THEN <<name, value>> ELSE entries[i]]
  ELSE Append(entries, <<name, value>>)

\* { ...target, ...source }.
RECURSIVE Spread(_, _)
Spread(target, source) ==
  IF Len(source) = 0 THEN target
  ELSE Once({ Spread(next, Tail(source)) :
              next \in {SetEntry(target, source[1][1], source[1][2])} })

\* The header lines `${key}: ${value}\r\n` of the entries, in order.
RECURSIVE HeaderLines(_)
HeaderLines(entries) ==
  IF Len(entries) = 0 THEN <<>>
  ELSE entries[1][1] \o COLON_SPACE \o entries[1][2] \o CRLF \o HeaderLines(Tail(entries))

\* Whether a property name is an array index, a canonical decimal numeral
\* below 2^32 - 1.  Every numeral of up to nine digits is one; longer names
\* are beyond the integers of the model and are not used as header names.
IsIndexName(name) ==
  /\ Len(name) > 0
  /\ \A i \in 1..Len(name) : IsDigit(name[i])
  /\ Len(name) = 1 \/ name[1] # 48
  /\ Len(name) <= 9

\* The entries of a set whose names are array indices, in ascending numeric
\* order.
RECURSIVE ByIndex(_)
ByIndex(S) ==
  IF S = {} THEN <<>>
  ELSE Once({ <<least>> \o ByIndex(S \ {least}) :
              least \in { CHOOSE e \in S :
                            \A f \in S : DigitsValue(e[1]) <= DigitsValue(f[1]) } })

\* Object.entries(obj): the properties whose names are array indices come
\* first, in ascending numeric order, then the others in insertion order.
ObjectEntries(entries) ==
  LET IsIndexEntry(e) == IsIndexName(e[1])
      IsNamedEntry(e) == ~IsIndexName(e[1])
  IN  ByIndex({ entries[i] : i \in { j \in 1..Len(entries) : IsIndexEntry(entries[j]) } })
        \o SelectSeq(entries, IsNamedEntry)

\* The reason phrase without the default: the text of undefined for a code
\* the table does not hold.
ReasonPhraseNoDefault(statusCode) ==
  IF statusCode \in DOMAIN statusMessages
  THEN statusMessages[statusCode] ELSE Str(<<"u","n","d","e","f","i","n","e","d">>)

\* The reason phrase: this.statusMessages[statusCode] || 'OK'.
ReasonPhrase(statusCode) ==
  IF statusCode \in DOMAIN statusMessages /\ statusMessages[statusCode] # <<>>
  THEN statusMessages[statusCode] ELSE REASON_OK

\* generateResponse(statusCode, body, customHeaders): the bytes of the
\* response.  body is [isString, v]; customHeaders is a sequence of entries.
GenerateResponse(statusCode, body, customHeaders) ==
  Once({ Once({ Utf8Encode(HTTP_VERSION_PREFIX \o IntToStr(statusCode) \o SPACE
                             \o ReasonPhrase(statusCode) \o CRLF
                             \o HeaderLines(ObjectEntries(headers)) \o CRLF)
                  \o bodyBuf :
                headers \in { Spread(<< <<N_Content_Length, IntToStr(Len(bodyBuf))>>,
                                        <<N_Content_Type, V_text_plain>> >>,
                                     customHeaders) } }) :
         bodyBuf \in { IF body.isString THEN Utf8Encode(body.v) ELSE body.v } })

(***************************************************************************)
(* The data handler of a connection (src/src/server.ts).                   *)
(***************************************************************************)

BODY_Cows == Str(<<"C","o","w","s"," ","w","i","l","l"," ","f","l","y","!">>)

BODY_NotFound == Str(<<"N","o","t"," ","F","o","u","n","d">>)

BODY_BadRequestPrefix == Str(<<"B","a","d"," ","R","e","q","u","e","s","t",":"," ">>)

\* What one run of the handler does: the responses it passes to
\* socket.write, whether it calls socket.end(), and the accumulator it
\* leaves.  A run that takes neither branch leaves everything as it is.
Waits(buf) == [writes |-> <<>>, end |-> FALSE, data |-> buf]

\* The catch block: a 400 response naming the error, then socket.end().
\* The accumulator keeps what it held.
OnError(buf, error) ==
  [writes |-> << GenerateResponse(400,
                    [isString |-> TRUE, v |-> BODY_BadRequestPrefix \o error.message],
                    << <<N_Content_Type, V_text_plain>>, <<N_Connection, V_close>> >>) >>,
   end |-> TRUE,
   data |-> buf]

\* The keep-alive test without toLowerCase.
KeepAliveCaseSensitive(parser) ==
  Once({ Truthy(connectionHeader) /\ connectionHeader.v = V_keep_alive :
         connectionHeader \in {GetHeader(parser, H_connection)} })

\* connectionHeader && connectionHeader.toLowerCase() === 'keep-alive'.
KeepAlive(parser) ==
  Once({ Truthy(connectionHeader) /\ ToLowerCase(connectionHeader.v) = V_keep_alive :
         connectionHeader \in {GetHeader(parser, H_connection)} })

\* The status and body the routing picks: the root path succeeds, any other
\* path is not found.
Route(parser) ==
  IF parser.path # ROOT_PATH
  THEN [statusCode |-> 404, responseBody |-> BODY_NotFound]
  ELSE [statusCode |-> 200, responseBody |-> BODY_Cows]

\* The response headers, with the Keep-Alive headers if the client asked for
\* them.
ResponseHeaders(keepAlive) ==
  IF keepAlive
  THEN << <<N_Content_Type, V_text_plain>>, <<N_Connection, V_keep_alive>>,
          <<N_Keep_Alive, V_keep_alive_params>> >>
  ELSE << <<N_Content_Type, V_text_plain>>, <<N_Connection, V_close>> >>

\* Whether the socket is ended after a response: the connection is not kept
\* alive, or no data is left.
ClosesAfter(keepAlive, rest) == ~keepAlive \/ Len(rest) = 0

\* The accumulator after a response: data.slice(expectedLength).
Trimmed(buf, expectedLength) == SliceFrom(buf, expectedLength)

\* The complete-request branch: route, answer, trim, close.
Respond(buf, parser, expectedLength) ==
  Once({ [writes |-> << GenerateResponse(Route(parser).statusCode,
                           [isString |-> TRUE, v |-> Route(parser).responseBody],
                           ResponseHeaders(keepAlive)) >>,
          end |-> ClosesAfter(keepAlive, rest),
          data |-> rest] :
         keepAlive \in {KeepAlive(parser)}, rest \in {Trimmed(buf, expectedLength)} })

\* The Content-Length the handler reads for its own check:
\* parseInt(parser.getHeader('content-length') || '0', 10).
HandlerContentLength(parser) ==
  Once({ ParseInt(IF Truthy(lengthHeader) THEN lengthHeader.v ELSE ZERO) :
         lengthHeader \in {GetHeader(parser, H_content_length)} })

\* expectedLength = headerIndex + 4 + contentLength, with the separator
\* looked for in the bytes of the accumulator.
ExpectedLength(buf, parser) ==
  IndexOf(buf, SEPARATOR) + 4 + HandlerContentLength(parser).val

\* The handler's own completeness check: the accumulator holds the separator
\* and at least expectedLength bytes (a comparison with NaN is false).
HoldsRequest(buf, parser) ==
  /\ IndexOf(buf, SEPARATOR) # -1
  /\ ~HandlerContentLength(parser).nan
  /\ Len(buf) >= ExpectedLength(buf, parser)

\* The try block after a parse that returned: nothing happens unless the
\* completeness check passes.
OnParsed(buf, parser) ==
  IF HoldsRequest(buf, parser)
  THEN Respond(buf, parser, ExpectedLength(buf, parser))
  ELSE Waits(buf)

\* The body of socket.on('data') after data = Buffer.concat([data, chunk]).
Handle(buf) ==
  Once({ IF parser.ok THEN OnParsed(buf, parser) ELSE OnError(buf, parser) :
         parser \in {Parse(buf)} })

\* The way a run of the handler on buf goes: "Invalid" when parse throws and
\* the catch block answers, "Complete" when the response branch is taken,
\* "Incomplete" when the handler returns without doing anything.
Outcome(buf) ==
  Once({ IF ~parser.ok THEN "Invalid"
         ELSE IF HoldsRequest(buf, parser) THEN "Complete"
         ELSE "Incomplete" :
         parser \in {Parse(buf)} })

(***************************************************************************)
(* What a peer sends.  A chunk is the bytes of one data event together     *)
(* with the offsets, within the chunk, at which the peer begins a request. *)
(***************************************************************************)
Chunk(bytes, begins) == [bytes |-> bytes, starts |-> begins]

KeepAliveRequest == Str(<<"G","E","T"," ","/"," ","H","T","T","P","/","1",".","1">>) \o CRLF \o Str(<<"C","o","n","n","e","c","t","i","o","n",":"," ","k","e","e","p","-","a","l","i","v","e">>) \o CRLF \o CRLF

CloseRequest == Str(<<"G","E","T"," ","/","x"," ","H","T","T","P","/","1",".","1">>) \o CRLF \o Str(<<"C","o","n","n","e","c","t","i","o","n",":"," ","c","l","o","s","e">>) \o CRLF \o CRLF

PlainRequest == Str(<<"G","E","T"," ","/"," ","H","T","T","P","/","1",".","1">>) \o CRLF \o CRLF

\* The head of a POST announcing two body bytes, and its body.
PostHead == Str(<<"P","O","S","T"," ","/"," ","H","T","T","P","/","1",".","1">>) \o CRLF \o Str(<<"C","o","n","t","e","n","t","-","L","e","n","g","t","h",":"," ","2">>) \o CRLF \o Str(<<"C","o","n","n","e","c","t","i","o","n",":"," ","k","e","e","p","-","a","l","i","v","e">>) \o CRLF \o CRLF

PostBody == Str(<<"a","b">>)

\* A request cut inside its request line, and the rest of it.
HeadFragment == Str(<<"G","E","T"," ","/"," ","H","T">>)

TailFragment == Str(<<"T","P","/","1",".","1">>) \o CRLF \o Str(<<"C","o","n","n","e","c","t","i","o","n",":"," ","k","e","e","p","-","a","l","i","v","e">>) \o CRLF \o CRLF

\* A body without a Content-Length header.
NoLengthRequest == Str(<<"P","O","S","T"," ","/"," ","H","T","T","P","/","1",".","1">>) \o CRLF \o Str(<<"C","o","n","n","e","c","t","i","o","n",":"," ","k","e","e","p","-","a","l","i","v","e">>) \o CRLF \o CRLF \o Str(<<"h","i">>)

\* The four requests of src/test-malformed.js.
Malformed1 == Str(<<"I","N","V","A","L","I","D"," ","D","A","T","A">>) \o CRLF \o CRLF

Malformed2 == Str(<<"G","E","T"," ","/">>) \o CRLF \o CRLF

Malformed3 == Str(<<"I","N","V","A","L","I","D"," ","/"," ","H","T","T","P","/","1",".","1">>) \o CRLF \o Str(<<"H","o","s","t",":"," ","l","o","c","a","l","h","o","s","t",":","8","0","8","0">>) \o CRLF \o CRLF

Malformed4 == Str(<<"G","E","T"," ","/"," ","H","T","T","P","/","1",".","1">>) \o CRLF \o Str(<<"H","o","s","t",":"," ","l","o","c","a","l","h","o","s","t",":","8","0","8","0">>) \o CRLF \o Str(<<"C","o","n","t","e","n","t","-","L","e","n","g","t","h",":"," ","1","0">>) \o CRLF \o Str(<<"T","h","i","s"," ","i","s"," ","t","h","e"," ","b","o","d","y">>)

ChunkedRequest == Str(<<"P","O","S","T"," ","/"," ","H","T","T","P","/","1",".","1">>) \o CRLF \o Str(<<"T","r","a","n","s","f","e","r","-","E","n","c","o","d","i","n","g",":"," ","c","h","u","n","k","e","d">>) \o CRLF \o Str(<<"C","o","n","n","e","c","t","i","o","n",":"," ","k","e","e","p","-","a","l","i","v","e">>) \o CRLF \o CRLF

BadLengthRequest == Str(<<"P","O","S","T"," ","/"," ","H","T","T","P","/","1",".","1">>) \o CRLF \o Str(<<"C","o","n","t","e","n","t","-","L","e","n","g","t","h",":"," ","a","b","c">>) \o CRLF \o Str(<<"C","o","n","n","e","c","t","i","o","n",":"," ","k","e","e","p","-","a","l","i","v","e">>) \o CRLF \o CRLF

\* Negative Content-Length values: one that reaches back into the header
\* block, and one that reaches before the start of the buffer.
NegativeSmallRequest == Str(<<"P","O","S","T"," ","/"," ","H","T","T","P","/","1",".","1">>) \o CRLF \o Str(<<"C","o","n","n","e","c","t","i","o","n",":"," ","k","e","e","p","-","a","l","i","v","e">>) \o CRLF \o Str(<<"C","o","n","t","e","n","t","-","L","e","n","g","t","h",":"," ","-","3">>) \o CRLF \o CRLF

NegativeLargeRequest == Str(<<"G","E","T"," ","/"," ","H","T","T","P","/","1",".","1">>) \o CRLF \o Str(<<"C","o","n","n","e","c","t","i","o","n",":"," ","k","e","e","p","-","a","l","i","v","e">>) \o CRLF \o Str(<<"C","o","n","t","e","n","t","-","L","e","n","g","t","h",":"," ","-","1","0","6">>) \o CRLF \o CRLF

\* A request whose path holds a two-byte character, and its one body byte.
Utf8Head == Str(<<"P","O","S","T"," ","/">>) \o <<195,169>> \o Str(<<" ","H","T","T","P","/","1",".","1">>) \o CRLF \o Str(<<"C","o","n","t","e","n","t","-","L","e","n","g","t","h",":"," ","1">>) \o CRLF \o Str(<<"C","o","n","n","e","c","t","i","o","n",":"," ","k","e","e","p","-","a","l","i","v","e">>) \o CRLF \o CRLF

Utf8Body == Str(<<"Z">>)

Chunks ==
  { Chunk(KeepAliveRequest, {0}),
    Chunk(CloseRequest, {0}),
    Chunk(PlainRequest, {0}),
    Chunk(KeepAliveRequest \o CloseRequest, {0, Len(KeepAliveRequest)}),
    Chunk(PostHead, {0}),
    Chunk(PostBody, {}),
    Chunk(PostHead \o PostBody, {0}),
    Chunk(HeadFragment, {0}),
    Chunk(TailFragment, {}),
    Chunk(NoLengthRequest, {0}),
    Chunk(Malformed1, {0}),
    Chunk(Malformed2, {0}),
    Chunk(Malformed3, {0}),
    Chunk(Malformed4, {0}),
    Chunk(ChunkedRequest, {0}),
    Chunk(BadLengthRequest, {0}),
    Chunk(NegativeSmallRequest, {0}),
    Chunk(NegativeLargeRequest \o CloseRequest \o KeepAliveRequest,
          {0, Len(NegativeLargeRequest), Len(NegativeLargeRequest) + Len(CloseRequest)}),
    Chunk(Utf8Head, {0}),
    Chunk(Utf8Body, {}),
    Chunk(Utf8Head \o Utf8Body, {0}) }

(***************************************************************************)
(* The server: one accumulator and one socket per accepted connection.     *)
(*                                                                         *)
(*   data[c]    the accumulator of connection c (let data, server.ts:19)   *)
(*   sock[c]    "none" before the connection is accepted, "open", "ended"  *)
(*              once socket.end() was called or the peer has ended,        *)
(*              "failing" when a write was refused because the peer has    *)
(*              gone and the error event is due, and "destroyed" after     *)
(*              an error event or after a write on an ended socket         *)
(*   out[c]     the responses the socket accepted, each with the stream    *)
(*              offset of the accumulator's first byte when it was written *)
(*   budget[c]  the data events the peer of c may still cause              *)
(*   base[c]    the stream offset of the accumulator's first byte          *)
(*   starts[c]  the stream offsets at which the peer began a request       *)
(*   decoded    the latest direct call of HttpRequestParser.parse: its     *)
(*              input, the request it returned and what getHeader gives    *)
(*   encoded    the latest direct call of generateResponse: its arguments  *)
(*              and the bytes it returned                                  *)
(*   last[c]    the latest run of the data handler on c: the accumulator   *)
(*              after the chunk was appended, the socket's state before,   *)
(*              the responses passed to socket.write, whether socket.end() *)
(*              was called, whether the socket refused the write because   *)
(*              the peer had gone                                          *)
(***************************************************************************)

Conns == {1, 2}

MaxChunks == 3

\* No call of generateResponse, or of parse, recorded.
NoCall == [called |-> FALSE]

NoRun ==
  [ran |-> FALSE, buf |-> <<>>, sockBefore |-> "none", writes |-> <<>>, end |-> FALSE,
   refused |-> FALSE]

Init ==
  /\ data = [c \in Conns |-> <<>>]
  /\ sock = [c \in Conns |-> "none"]
  /\ out = [c \in Conns |-> <<>>]
  /\ budget = [c \in Conns |-> IF c = 1 THEN MaxChunks ELSE 0]
  /\ base = [c \in Conns |-> 0]
  /\ starts = [c \in Conns |-> {}]
  /\ last = [c \in Conns |-> NoRun]
  /\ encoded = NoCall
  /\ decoded = NoCall

\* The net.createServer callback: a new connection starts with an empty
\* accumulator.
Accept(c) ==
  /\ sock[c] = "none"
  /\ sock' = [sock EXCEPT ![c] = "open"]
  /\ data' = [data EXCEPT ![c] = <<>>]
  /\ UNCHANGED <<out, budget, base, starts, last, encoded, decoded>>

\* The socket after a run of the handler that found it in state s: a write on
\* an open socket is accepted and end() ends it; a write on a socket whose
\* writable side has ended is refused and destroys the socket.
SocketAfter(s, writes, end) ==
  IF s = "open" THEN (IF end THEN "ended" ELSE "open")
  ELSE IF writes # <<>> THEN "destroyed" ELSE s

\* The responses the socket accepts from a run: those written while it was
\* open, each tagged with the stream offset of the accumulator's first byte.
Accepted(s, at, writes) ==
  IF s = "open" THEN [i \in 1..Len(writes) |-> [at |-> at, bytes |-> writes[i]]]
  ELSE <<>>

\* The data handler with one accumulator for all connections, as if
\* 'let data' stood outside the connection callback.
OnDataSharedAccumulator(c, chunk) ==
  /\ sock[c] \in {"open", "ended"}
  /\ budget[c] > 0
  /\ \E buf \in {data[c] \o chunk.bytes} :
       \E h \in {Handle(buf)} :
         /\ data' = [d \in Conns |-> h.data]
         /\ sock' = [sock EXCEPT ![c] = SocketAfter(sock[c], h.writes, h.end)]
         /\ out' = [out EXCEPT ![c] = @ \o Accepted(sock[c], base[c], h.writes)]
         /\ base' = [base EXCEPT ![c] = @ + (Len(buf) - Len(h.data))]
         /\ starts' = [starts EXCEPT ![c] =
                         @ \cup { base[c] + Len(data[c]) + o : o \in chunk.starts }]
         /\ budget' = [budget EXCEPT ![c] = @ - 1]
         /\ last' = [last EXCEPT ![c] =
                       [ran |-> TRUE, buf |-> buf, sockBefore |-> sock[c],
                        writes |-> h.writes, end |-> h.end,
                        refused |-> FALSE]]
         /\ UNCHANGED <<encoded, decoded>>

\* socket.on('data'): the chunk is appended and the handler runs.  The
\* readable side of a socket stays open after socket.end(), so data events
\* keep arriving until the peer stops or the socket is destroyed.
OnData(c, chunk) ==
  /\ sock[c] \in {"open", "ended"}
  /\ budget[c] > 0
  /\ \E buf \in {data[c] \o chunk.bytes} :
       \E h \in {Handle(buf)} :
         /\ data' = [data EXCEPT ![c] = h.data]
         /\ sock' = [sock EXCEPT ![c] = SocketAfter(sock[c], h.writes, h.end)]
         /\ out' = [out EXCEPT ![c] = @ \o Accepted(sock[c], base[c], h.writes)]
         /\ base' = [base EXCEPT ![c] = @ + (Len(buf) - Len(h.data))]
         /\ starts' = [starts EXCEPT ![c] =
                         @ \cup { base[c] + Len(data[c]) + o : o \in chunk.starts }]
         /\ budget' = [budget EXCEPT ![c] = @ - 1]
         /\ last' = [last EXCEPT ![c] =
                       [ran |-> TRUE, buf |-> buf, sockBefore |-> sock[c],
                        writes |-> h.writes, end |-> h.end,
                        refused |-> FALSE]]
         /\ UNCHANGED <<encoded, decoded>>

\* socket.on('data') when the peer has gone by the time the handler writes:
\* the handler runs as ever, but the socket refuses the write (EPIPE) and
\* accepts nothing; it is destroyed at once, the handler's socket.end() has
\* no effect, and the error event is due.  A run that writes nothing does
\* not notice.
OnDataRefused(c, chunk) ==
  /\ sock[c] = "open"
  /\ budget[c] > 0
  /\ \E buf \in {data[c] \o chunk.bytes} :
       \E h \in {Handle(buf)} :
         /\ h.writes # <<>>
         /\ data' = [data EXCEPT ![c] = h.data]
         /\ sock' = [sock EXCEPT ![c] = "failing"]
         /\ base' = [base EXCEPT ![c] = @ + (Len(buf) - Len(h.data))]
         /\ starts' = [starts EXCEPT ![c] =
                         @ \cup { base[c] + Len(data[c]) + o : o \in chunk.starts }]
         /\ budget' = [budget EXCEPT ![c] = @ - 1]
         /\ last' = [last EXCEPT ![c] =
                       [ran |-> TRUE, buf |-> buf, sockBefore |-> sock[c],
                        writes |-> h.writes, end |-> h.end,
                        refused |-> TRUE]]
         /\ UNCHANGED <<out, encoded, decoded>>

\* socket.on('error'): the handler logs the error; the socket is destroyed
\* and no further event of the connection follows.  The event follows a
\* refused write, and it comes on its own when the peer resets the
\* connection while the socket is open or ended.
OnSocketError(c) ==
  /\ sock[c] \in {"open", "ended", "failing"}
  /\ sock' = [sock EXCEPT ![c] = "destroyed"]
  /\ UNCHANGED <<data, out, budget, base, starts, last, encoded, decoded>>

\* socket.on('end'): the peer has sent its FIN.  No data follows, and the
\* socket (allowHalfOpen is off) ends its own side.
OnEnd(c) ==
  /\ sock[c] \in {"open", "ended"}
  /\ sock[c] = "open" \/ budget[c] > 0
  /\ sock' = [sock EXCEPT ![c] = "ended"]
  /\ budget' = [budget EXCEPT ![c] = 0]
  /\ UNCHANGED <<data, out, base, starts, last, encoded, decoded>>

Next ==
  \E c \in Conns :
    \/ Accept(c)
    \/ \E chunk \in Chunks : OnData(c, chunk)
    \/ \E chunk \in Chunks : OnDataRefused(c, chunk)
    \/ OnSocketError(c)
    \/ OnEnd(c)

Spec == Init /\ [][Next]_vars

(***************************************************************************)
(* Two connections whose data events interleave: the peer of the first     *)
(* causes two data events, the peer of the second one.                     *)
(***************************************************************************)
IsolationInit ==
  /\ data = [c \in Conns |-> <<>>]
  /\ sock = [c \in Conns |-> "none"]
  /\ out = [c \in Conns |-> <<>>]
  /\ budget = [c \in Conns |-> IF c = 1 THEN 2 ELSE 1]
  /\ base = [c \in Conns |-> 0]
  /\ starts = [c \in Conns |-> {}]
  /\ last = [c \in Conns |-> NoRun]
  /\ encoded = NoCall
  /\ decoded = NoCall

IsolationSpec == IsolationInit /\ [][Next]_vars

(***************************************************************************)
(* Decoding one request.  The same server, fed a single data event that    *)
(* carries one request put together from a request line, header lines and  *)
(* a body.                                                                 *)
(***************************************************************************)

RequestLines ==
  { Str(<<"G","E","T"," ","/"," ","H","T","T","P","/","1",".","1">>),
    Str(<<"P","O","S","T"," ","/","x"," ","H","T","T","P","/","1",".","1">>),
    Str(<<"P","U","T"," ","/"," ","H","T","T","P","/","1",".","1">>),
    Str(<<"D","E","L","E","T","E"," ","/"," ","H","T","T","P","/","1",".","1">>),
    Str(<<"P","A","T","C","H"," ","/"," ","H","T","T","P","/","1",".","1">>),
    Str(<<"O","P","T","I","O","N","S"," ","/"," ","H","T","T","P","/","1",".","1">>),
    Str(<<"H","E","A","D"," ","/">>) \o <<195,169>> \o Str(<<" ","H","T","T","P","/","1",".","1">>),
    Str(<<"T","R","A","C","E"," ","/"," ","H","T","T","P","/","1",".","1">>),
    Str(<<"g","e","t"," ","/"," ","H","T","T","P","/","1",".","1">>),
    Str(<<"G","E","T"," ","/">>),
    Str(<<"G","E","T"," "," ","/"," ","H","T","T","P","/","1",".","1">>) }

\* Each of the next three sets holds the choices for one header: no line, or
\* one line.
ConnectionLines ==
  { <<>>,
    << Str(<<"C","o","n","n","e","c","t","i","o","n",":"," ","k","e","e","p","-","a","l","i","v","e">>) >>,
    << Str(<<"c","o","n","n","e","c","t","i","o","n",":"," "," ","K","e","e","p","-","A","l","i","v","e"," ">>) >>,
    << Str(<<"C","o","n","n","e","c","t","i","o","n",":"," ","c","l","o","s","e">>) >>,
    << Str(<<"C","o","n","n","e","c","t","i","o","n",":"," ","k","e","e","p","-","a","l","i","v","e",","," ","u","p","g","r","a","d","e">>) >> }

LengthLines ==
  { <<>>,
    << Str(<<"C","o","n","t","e","n","t","-","L","e","n","g","t","h",":"," ","0">>) >>,
    << Str(<<"C","o","n","t","e","n","t","-","L","e","n","g","t","h",":"," ","2">>) >>,
    << Str(<<"C","o","n","t","e","n","t","-","L","e","n","g","t","h",":"," ","2","a","b","c">>) >>,
    << Str(<<"C","o","n","t","e","n","t","-","L","e","n","g","t","h",":"," ","a","b","c">>) >>,
    << Str(<<"C","o","n","t","e","n","t","-","L","e","n","g","t","h",":"," ","-","3">>) >>,
    << Str(<<"C","o","n","t","e","n","t","-","L","e","n","g","t","h",":">>) >> }

OtherLines ==
  { <<>>,
    << Str(<<"T","r","a","n","s","f","e","r","-","E","n","c","o","d","i","n","g",":"," ","c","h","u","n","k","e","d">>) >>,
    << Str(<<"T","r","a","n","s","f","e","r","-","E","n","c","o","d","i","n","g",":"," ","g","z","i","p">>) >>,
    << Str(<<"C","o","n","t","e","n","t","-","T","y","p","e",":"," ","t","e","x","t","/","p","l","a","i","n">>) >> }

RequestBodies == { <<>>, Str(<<"a","b">>), Str(<<"a","b","c","d">>) }

\* The lines of a header block, each ended by CR LF.
RECURSIVE Lines(_)
Lines(lines) ==
  IF Len(lines) = 0 THEN <<>> ELSE lines[1] \o CRLF \o Lines(Tail(lines))

\* The bytes of a request as a client writes it.
Request(line, headerLines, body) ==
  line \o CRLF \o Lines(headerLines) \o CRLF \o body

Requests ==
  { Request(line, connection \o length \o other, body) :
      line \in RequestLines, connection \in ConnectionLines, length \in LengthLines,
      other \in OtherLines, body \in RequestBodies }

\* One connection that receives one data event.
DecodeInit ==
  /\ data = [c \in Conns |-> <<>>]
  /\ sock = [c \in Conns |-> "none"]
  /\ out = [c \in Conns |-> <<>>]
  /\ budget = [c \in Conns |-> IF c = 1 THEN 1 ELSE 0]
  /\ base = [c \in Conns |-> 0]
  /\ starts = [c \in Conns |-> {}]
  /\ last = [c \in Conns |-> NoRun]
  /\ encoded = NoCall
  /\ decoded = NoCall

DecodeNext ==
  \/ Accept(1)
  \/ \E request \in Requests : OnData(1, Chunk(request, {0}))

DecodeSpec == DecodeInit /\ [][DecodeNext]_vars

(***************************************************************************)
(* Encoding a response: generateResponse called directly.                  *)
(***************************************************************************)

StatusCodes == {200, 201, 400, 404, 500, 999}

\* Bodies: strings (one with a two-byte character) and Buffers (one that
\* holds a blank line).
ResponseBodies ==
  { [isString |-> TRUE, v |-> <<>>],
    [isString |-> TRUE, v |-> Str(<<"h","i">>)],
    [isString |-> TRUE, v |-> <<233>>],
    [isString |-> FALSE, v |-> <<0, 255>>],
    [isString |-> FALSE, v |-> Str(<<"a">>) \o CRLF \o CRLF \o Str(<<"b">>)] }

\* Caller headers, each mapping in the order its entries were written.
HeaderMappings ==
  { <<>>,
    << <<Str(<<"C","o","n","t","e","n","t","-","T","y","p","e">>), Str(<<"a","p","p","l","i","c","a","t","i","o","n","/","j","s","o","n">>)>>, <<Str(<<"C","a","c","h","e","-","C","o","n","t","r","o","l">>), Str(<<"n","o","-","c","a","c","h","e">>)>> >>,
    << <<Str(<<"c","o","n","t","e","n","t","-","t","y","p","e">>), Str(<<"t","e","x","t","/","h","t","m","l">>)>> >>,
    << <<Str(<<"C","o","n","t","e","n","t","-","L","e","n","g","t","h">>), Str(<<"9","9","9">>)>> >>,
    << <<Str(<<"X","-","A">>), Str(<<"1">>)>>, <<Str(<<"X","-","B">>), Str(<<"2">>)>> >>,
    << <<Str(<<"X","-","B">>), Str(<<"2">>)>>, <<Str(<<"X","-","A">>), Str(<<"1">>)>> >>,
    << <<Str(<<"X","-","A">>), Str(<<"1">>)>>, <<Str(<<"7">>), Str(<<"s","e","v","e","n">>)>> >>,
    << <<Str(<<"1","0">>), Str(<<"a">>)>>, <<Str(<<"X","-","A">>), Str(<<"1">>)>>, <<Str(<<"9">>), Str(<<"b">>)>> >>,
    << <<Str(<<"X","-","A">>), Str(<<"v">>) \o CRLF>> >>,
    << <<Str(<<"C","o","n","n","e","c","t","i","o","n">>), Str(<<"c","l","o","s","e">>)>>, <<Str(<<"C","o","n","t","e","n","t","-","T","y","p","e">>), Str(<<"t","e","x","t","/","p","l","a","i","n">>)>> >> }

\* A call of generateResponse.  The result depends on the arguments only, so
\* one call per behaviour covers every call.
Encode(statusCode, body, customHeaders) ==
  /\ ~encoded.called
  /\ encoded' = [called |-> TRUE,
                 statusCode |-> statusCode,
                 body |-> body,
                 customHeaders |-> customHeaders,
                 response |-> GenerateResponse(statusCode, body, customHeaders)]
  /\ UNCHANGED <<data, sock, out, budget, base, starts, last, decoded>>

EncodeNext ==
  \E statusCode \in StatusCodes, body \in ResponseBodies, customHeaders \in HeaderMappings :
    Encode(statusCode, body, customHeaders)

EncodeSpec == Init /\ [][EncodeNext]_vars

(***************************************************************************)
(* Direct calls of HttpRequestParser.parse on requests whose header        *)
(* section is drawn line by line, followed by getHeader lookups.           *)
(***************************************************************************)

\* The most header lines of a drawn request.
MaxHeaderLines == 2

HeaderLinePool ==
  { Str(<<"H","o","s","t",":"," ","l","o","c","a","l","h","o","s","t",":","8","0","8","0">>),
    Str(<<" "," ">>),
    Str(<<"X","-","D","u","p",":"," ","1">>),
    Str(<<"x","-","d","u","p",":"," ","2">>),
    Str(<<" ","X","-","D","U","P"," ",":"," "," ","3"," ">>),
    Str(<<"N","o","C","o","l","o","n">>),
    Str(<<":"," ","o","r","p","h","a","n">>),
    Str(<<" ",":"," ","b","l","a","n","k">>),
    Str(<<"A","c","c","e","p","t",":">>),
    Str(<<"C","o","n","t","e","n","t","-","T","y","p","e",":"," ","t","e","x","t","/","p","l","a","i","n">>),
    <<195,137>> \o Str(<<"-","T","a","g",":"," ","M">>) \o <<195,164>> \o Str(<<"r","z">>),
    Str(<<"_","_","p","r","o","t","o","_","_",":"," ","x">>),
    Str(<<"C","o","n","t","e","n","t","-","L","e","n","g","t","h",":"," ","1">>),
    Str(<<"C","o","n","t","e","n","t","-","L","e","n","g","t","h",":"," ","-","1">>) }

\* The header sections: every sequence of at most MaxHeaderLines lines of
\* the pool.
HeaderSections ==
  UNION { [1..n -> HeaderLinePool] : n \in 0..MaxHeaderLines }

ParseRequestLine == Str(<<"G","E","T"," ","/"," ","H","T","T","P","/","1",".","1">>)

\* What follows the separator.
ParseBodies == { <<>>, Str(<<"h","i">>) }

\* The keys getHeader is called with.
LookupKeys ==
  { Str(<<"h","o","s","t">>), Str(<<"H","o","s","t">>), Str(<<"H","O","S","T">>), Str(<<"x","-","d","u","p">>), Str(<<"X","-","D","u","p">>), Str(<<"n","o","c","o","l","o","n">>), Str(<<"N","o","C","o","l","o","n">>),
    Str(<<"a","c","c","e","p","t">>), Str(<<"c","o","n","t","e","n","t","-","t","y","p","e">>), Str(<<"C","o","n","t","e","n","t","-","T","y","p","e">>), Utf8Decode(<<195,137>> \o Str(<<"-","T","A","G">>)),
    Utf8Decode(<<195,169>> \o Str(<<"-","t","a","g">>)), Str(<<"m","i","s","s","i","n","g">>), <<>>, Str(<<"c","o","n","s","t","r","u","c","t","o","r">>), Str(<<"C","o","n","s","t","r","u","c","t","o","r">>),
    Str(<<"_","_","p","r","o","t","o","_","_">>), Str(<<"t","o","S","t","r","i","n","g">>) }

\* A call of HttpRequestParser.parse(input), then getHeader(key) on the
\* returned parser for each key.  The result depends on the input only, so
\* one call per behaviour covers every call.
ParseCall(input) ==
  /\ ~decoded.called
  /\ \E parser \in {ParseInput(input)} :
       decoded' = [called |-> TRUE,
                   input |-> input,
                   parser |-> parser,
                   lookups |-> IF parser.ok
                               THEN [key \in LookupKeys |-> GetHeader(parser, key)]
                               ELSE [key \in LookupKeys |-> Undefined]]
  /\ UNCHANGED <<data, sock, out, budget, base, starts, last, encoded>>

\* The input is the request as a Buffer, or as the string of its text.
ParseNext ==
  \E headerLines \in HeaderSections, body \in ParseBodies :
    \E request \in {Request(ParseRequestLine, headerLines, body)} :
      \/ ParseCall(BufferInput(request))
      \/ ParseCall(StringInput(Utf8Decode(request)))

ParseSpec == Init /\ [][ParseNext]_vars

(***************************************************************************)
(* Properties.  They are stated over the latest run of the data handler on *)
(* each connection (last), the accumulator it left (data) and the          *)
(* responses the socket accepted (out).                                    *)
(***************************************************************************)

\* The request at the head of a buffer, read from its bytes: the byte offset
\* of the separator (sep), whether the request line has three tokens with a
\* supported method and the headers do not ask for chunked encoding (valid),
\* and whether a Content-Length made of decimal digits only is present
\* (hasLength) with its value (n).
HeadOf(buf) ==
  Once({ IF sep = -1
         THEN [sep |-> -1, valid |-> FALSE, hasLength |-> FALSE, n |-> 0]
         ELSE Once({ Once({ [sep |-> sep,
                             valid |-> /\ Len(Split(lines[1], SPACE)) = 3
                                       /\ Split(lines[1], SPACE)[1] \in SupportedMethods
                                       /\ Get(headers, H_transfer_encoding) # Some(V_chunked),
                             hasLength |-> /\ Truthy(Get(headers, H_content_length))
                                           /\ \A i \in 1..Len(headers[H_content_length]) :
                                                IsDigit(headers[H_content_length][i]),
                             n |-> IF Truthy(Get(headers, H_content_length))
                                   THEN DigitsValue(LeadingDigits(headers[H_content_length]))
                                   ELSE 0] :
                            headers \in {ParseHeaders(EmptyObject, Tail(lines))} }) :
                     lines \in {Split(Utf8Decode(SubSeq(buf, 1, sep)), CRLF)} }) :
         sep \in {IndexOf(buf, SEPARATOR)} })

\* The bytes that follow the separator in buf.
Available(buf) == Len(buf) - (IndexOf(buf, SEPARATOR) + 4)

\* The body of a parsed request as bytes.
BodyBytes(parser) == IF parser.body.isString THEN Utf8Encode(parser.body.v) ELSE parser.body.v

\* The number of bytes the latest run on c removed from the accumulator.
TrimmedBy(c) == Len(last[c].buf) - Len(data[c])

\* The latest run on c wrote to a socket whose peer had gone: the write was
\* refused and nothing was accepted.
Refused(c) == last[c].ran /\ last[c].refused

\* C1: While the accumulator holds no complete request (no CR LF CR LF yet, or
\* a valid head whose declared Content-Length exceeds the body bytes present),
\* a run of the handler writes nothing, does not end the socket and keeps the
\* accumulator; and a stream that is exactly one valid keep-alive request,
\* in one chunk or in fragments, has been answered exactly once, with the
\* handler's response to it, unless the peer had gone and the socket
\* refused the write.
IncompleteRequestWaits ==
  \A c \in Conns :
    last[c].ran =>
      Once({ /\ ( \/ head.sep = -1
                  \/ /\ head.valid
                     /\ head.hasLength
                     /\ Len(last[c].buf) - (head.sep + 4) < head.n )
                => /\ last[c].writes = <<>>
                   /\ ~last[c].end
                   /\ data[c] = last[c].buf
             /\ (last[c].buf = KeepAliveRequest /\ starts[c] = {0} /\ ~Refused(c))
                => out[c] = Accepted("open", 0, Handle(KeepAliveRequest).writes) :
             head \in {HeadOf(last[c].buf)} })

\* C2: After a keep-alive request is answered and trimmed, the bytes that
\* remain are decoded in the same step: no complete request is left
\* unanswered in the accumulator, and a keep-alive request followed by a
\* close request in one chunk gets both responses in that step, the second
\* followed by the close.
PipelinedRequestsAnsweredInOneStep ==
  \A c \in Conns :
    last[c].ran =>
      /\ ( /\ Outcome(last[c].buf) = "Complete"
           /\ KeepAlive(Parse(last[c].buf))
           /\ data[c] # <<>> )
         => Outcome(data[c]) # "Complete"
      /\ ( /\ last[c].sockBefore = "open"
           /\ last[c].buf = KeepAliveRequest \o CloseRequest )
         => /\ last[c].writes = Handle(KeepAliveRequest).writes \o Handle(CloseRequest).writes
            /\ last[c].end
            /\ data[c] = <<>>

\* C3: When a complete keep-alive request has been answered and no bytes
\* remain in the accumulator, the handler does not end the socket.
KeepAliveSocketStaysOpen ==
  \A c \in Conns :
    ( /\ last[c].ran
      /\ Outcome(last[c].buf) = "Complete"
      /\ KeepAlive(Parse(last[c].buf))
      /\ data[c] = <<>> )
    => ~last[c].end

\* C4: A complete request that does not ask for keep-alive is answered with
\* one response and the socket is ended; and the handler never decodes or
\* writes on a connection whose socket the session has already ended.
NoDecodeAfterClose ==
  \A c \in Conns :
    last[c].ran =>
      /\ ( /\ last[c].sockBefore = "open"
           /\ Outcome(last[c].buf) = "Complete"
           /\ ~KeepAlive(Parse(last[c].buf)) )
         => (Len(last[c].writes) = 1 /\ last[c].end)
      /\ last[c].sockBefore = "open"

\* The first line of a 400 response, and the header line that closes.
BadRequestStatusLine == Str(<<"H","T","T","P","/","1",".","1"," ","4","0","0"," ","B","a","d"," ","R","e","q","u","e","s","t">>) \o CRLF

ConnectionCloseLine == CRLF \o Str(<<"C","o","n","n","e","c","t","i","o","n",":"," ","c","l","o","s","e">>) \o CRLF

\* The header block of a response (through the end of its last header line)
\* and the bytes after the blank line.
HeaderBlockOf(response) == SubSeq(response, 1, IndexOf(response, SEPARATOR) + 2)

BodyOf(response) == SliceFrom(response, IndexOf(response, SEPARATOR) + 4)

\* A 400 response that closes and whose body holds the message.
IsBadRequest(response, message) ==
  /\ StartsWith(response, BadRequestStatusLine)
  /\ Includes(HeaderBlockOf(response), ConnectionCloseLine)
  /\ ~Includes(HeaderBlockOf(response), V_keep_alive)
  /\ Includes(BodyOf(response), Utf8Encode(message))

\* The latest run on c passed a response to a socket that did not accept
\* it: the peer had gone, or the session had already ended the socket.
WriteFault(c) ==
  /\ last[c].ran
  /\ last[c].writes # <<>>
  /\ (last[c].refused \/ last[c].sockBefore # "open")

\* The latest run on c met a fault: parsing raised an error, or the write
\* failed.
Faulted(c) ==
  /\ last[c].ran
  /\ (Outcome(last[c].buf) = "Invalid" \/ WriteFault(c))

\* The text the 400 response has to name: the parse error's message, or
\* for a write fault at least the prefix of the catch block.
FaultReason(c) ==
  IF Outcome(last[c].buf) = "Invalid" THEN Parse(last[c].buf).message
  ELSE BODY_BadRequestPrefix

\* The socket's writable side is closed.
Closed(c) == sock[c] \in {"ended", "failing", "destroyed"}

\* C5: Every run of the handler that meets a fault, in parsing or in
\* writing, has this result: exactly one response is written, a 400 whose
\* headers include Connection: close and whose body holds the failure
\* reason, the socket accepted it as the latest response of the connection,
\* and the socket is closed afterwards, whatever connection header the
\* request carries.
ParseErrorAnswered400AndClosed ==
  \A c \in Conns :
    Faulted(c) =>
      /\ Len(last[c].writes) = 1
      /\ IsBadRequest(last[c].writes[1], FaultReason(c))
      /\ last[c].end
      /\ ~WriteFault(c)
      /\ Len(out[c]) >= 1
      /\ out[c][Len(out[c])].bytes = last[c].writes[1]
      /\ Closed(c)

\* C6: The responses a connection's socket accepted answer the requests in
\* the order they start in the byte stream: each was written for a later
\* position than the one before, and none was written for a position beyond
\* the start of a request that has no response.
ResponsesInArrivalOrder ==
  \A c \in Conns :
    \A k \in 1..Len(out[c]) :
      /\ \A j \in 1..(k - 1) : out[c][j].at < out[c][k].at
      /\ \A s \in starts[c] :
           s < out[c][k].at => \E j \in 1..(k - 1) : out[c][j].at = s

\* C7: When the buffer starts with a valid request whose Content-Length n is
\* covered by the bytes present, the run is Complete, the body extracted is
\* the n bytes after the separator, and the session trims header section
\* length + 4 + n bytes, no more than the buffer holds.
DeclaredLengthBodyExtracted ==
  \A c \in Conns :
    last[c].ran =>
      Once({ ( /\ head.valid
               /\ head.hasLength
               /\ Len(last[c].buf) >= head.sep + 4 + head.n )
             => /\ Outcome(last[c].buf) = "Complete"
                /\ BodyBytes(Parse(last[c].buf))
                     = Slice(last[c].buf, head.sep + 4, head.sep + 4 + head.n)
                /\ TrimmedBy(c) = head.sep + 4 + head.n
                /\ TrimmedBy(c) <= Len(last[c].buf) :
             head \in {HeadOf(last[c].buf)} })

\* C8: When a request without a Content-Length header is answered, its body
\* is the bytes after the separator, at most MAX_BODY_SIZE of them, and the
\* session trims bodyStart + min(MAX_BODY_SIZE, bytes available): no byte of
\* that body stays in the accumulator.
UndeclaredBodyConsumed ==
  \A c \in Conns :
    ( /\ last[c].ran
      /\ Outcome(last[c].buf) = "Complete"
      /\ ~Truthy(GetHeader(Parse(last[c].buf), H_content_length)) )
    => /\ BodyBytes(Parse(last[c].buf))
            = Slice(last[c].buf, IndexOf(last[c].buf, SEPARATOR) + 4,
                    IndexOf(last[c].buf, SEPARATOR) + 4 + MAX_BODY_SIZE)
       /\ TrimmedBy(c) = Parse(last[c].buf).bodyStart
                          + Min(MAX_BODY_SIZE, Available(last[c].buf))

\* C9: A buffer without CR LF CR LF is Incomplete, never Invalid: no parse
\* error is raised for it.
NoSeparatorIsIncomplete ==
  \A c \in Conns :
    (last[c].ran /\ IndexOf(last[c].buf, SEPARATOR) = -1)
    => Outcome(last[c].buf) = "Incomplete"

\* C10: For a valid head with Content-Length n, the buffer is Incomplete (not
\* Invalid) while fewer than n body bytes are present and Complete once at
\* least n are.
ShortBodyIsIncomplete ==
  \A c \in Conns :
    last[c].ran =>
      Once({ (head.valid /\ head.hasLength)
             => Outcome(last[c].buf)
                  = (IF Len(last[c].buf) - (head.sep + 4) < head.n
                     THEN "Incomplete" ELSE "Complete") :
             head \in {HeadOf(last[c].buf)} })

(***************************************************************************)
(* Properties of decoding, read from the bytes of the request itself.      *)
(***************************************************************************)

\* The seven methods of the request line.
ClaimedMethods ==
  { Str(<<"G","E","T">>), Str(<<"P","O","S","T">>), Str(<<"P","U","T">>), Str(<<"D","E","L","E","T","E">>), Str(<<"P","A","T","C","H">>), Str(<<"O","P","T","I","O","N","S">>), Str(<<"H","E","A","D">>) }

HasSeparator(buf) == IndexOf(buf, SEPARATOR) # -1

\* The tokens of the first line of a buffer that holds the separator: the
\* text before the first CR LF, split on single spaces.
RequestLineTokens(buf) ==
  Split(Utf8Decode(SubSeq(buf, 1, IndexOf(buf, CRLF))), SPACE)

\* The header lines a buffer carries before its separator.
SentLines(buf) ==
  Tail(Split(Utf8Decode(SubSeq(buf, 1, IndexOf(buf, SEPARATOR))), CRLF))

\* The name of a header line (the text before its first colon, lowercased and
\* trimmed) and its value (the text after that colon, trimmed).
SentName(line) ==
  Once({ Trim(ToLowerCase(IF i = -1 THEN line ELSE SubSeq(line, 1, i))) :
         i \in {IndexOf(line, COLON)} })

SentValue(line) ==
  Once({ IF i = -1 THEN <<>> ELSE Trim(SubSeq(line, i + 2, Len(line))) :
         i \in {IndexOf(line, COLON)} })

\* The value the request gives to a header: that of the last line with the
\* name, or undefined.
SentHeader(buf, name) ==
  Once({ Once({ IF at = {} THEN Undefined ELSE Some(SentValue(lines[Greatest(at)])) :
                at \in { { i \in 1..Len(lines) :
                             /\ Trim(lines[i]) # <<>>
                             /\ lines[i][1] # COLON[1]
                             /\ SentName(lines[i]) = name } } }) :
         lines \in {SentLines(buf)} })

\* A buffer with the separator, a request line of three tokens and one of
\* the seven methods.
WellFormedLine(buf) ==
  /\ HasSeparator(buf)
  /\ Len(RequestLineTokens(buf)) = 3
  /\ RequestLineTokens(buf)[1] \in ClaimedMethods

\* A decimal integer: an optional sign and at least one digit, nothing else.
IsInteger(s) ==
  Once({ Len(digits) > 0 /\ \A i \in 1..Len(digits) : IsDigit(digits[i]) :
         digits \in { IF Len(s) > 0 /\ s[1] \in {43, 45} THEN Tail(s) ELSE s } })

\* The lines of a response before its first blank line: the status line, then
\* the header lines.
ResponseLines(response) ==
  Split(SubSeq(response, 1, IndexOf(response, SEPARATOR)), CRLF)

KeepAliveConnectionLine == Str(<<"C","o","n","n","e","c","t","i","o","n",":"," ","k","e","e","p","-","a","l","i","v","e">>)

KeepAliveParamsLine == Str(<<"K","e","e","p","-","A","l","i","v","e",":"," ","t","i","m","e","o","u","t","=","5",","," ","m","a","x","=","1","0","0","0">>)

CloseConnectionLine == Str(<<"C","o","n","n","e","c","t","i","o","n",":"," ","c","l","o","s","e">>)

KeepAliveNamePrefix == Str(<<"K","e","e","p","-","A","l","i","v","e",":">>)

\* Whether some header line of the response is the given line, or starts
\* with the given prefix.
HasLine(response, line) ==
  \E i \in 2..Len(ResponseLines(response)) : ResponseLines(response)[i] = line

HasLineStarting(response, prefix) ==
  \E i \in 2..Len(ResponseLines(response)) :
    StartsWith(ResponseLines(response)[i], prefix)

\* The request asks for keep-alive: its connection header, compared without
\* regard to case, is keep-alive.
AsksKeepAlive(buf) ==
  Once({ h.defined /\ ToLowerCase(h.v) = V_keep_alive :
         h \in {SentHeader(buf, H_connection)} })

\* C11: The response to a complete request carries Connection: keep-alive
\* and Keep-Alive: timeout=5, max=1000 exactly when the request's connection
\* header is keep-alive in any letter case; otherwise it carries
\* Connection: close and no Keep-Alive header.
ConnectionHeadersFollowRequest ==
  \A c \in Conns :
    (last[c].ran /\ Outcome(last[c].buf) = "Complete") =>
      /\ Len(last[c].writes) = 1
      /\ IF AsksKeepAlive(last[c].buf)
         THEN /\ HasLine(last[c].writes[1], KeepAliveConnectionLine)
              /\ HasLine(last[c].writes[1], KeepAliveParamsLine)
              /\ ~HasLine(last[c].writes[1], CloseConnectionLine)
         ELSE /\ HasLine(last[c].writes[1], CloseConnectionLine)
              /\ ~HasLine(last[c].writes[1], KeepAliveConnectionLine)
              /\ ~HasLineStarting(last[c].writes[1], KeepAliveNamePrefix)

\* C11, its case: a complete request whose header is written
\* 'connection:  Keep-Alive ' was answered with the keep-alive headers.
MixedCaseKeepAliveAnswered ==
  \E c \in Conns :
    /\ last[c].ran
    /\ Outcome(last[c].buf) = "Complete"
    /\ SentHeader(last[c].buf, H_connection) = Some(Str(<<"K","e","e","p","-","A","l","i","v","e">>))
    /\ HasLine(last[c].writes[1], KeepAliveParamsLine)

\* C12: A request line of three tokens whose method is not one of the seven
\* is rejected as an unsupported method and answered with 400, never routed;
\* a request whose method is one of the seven is never rejected for its
\* method.
UnsupportedMethodRejected ==
  \A c \in Conns :
    ( /\ last[c].ran
      /\ HasSeparator(last[c].buf)
      /\ Len(RequestLineTokens(last[c].buf)) = 3 )
    => IF RequestLineTokens(last[c].buf)[1] \in ClaimedMethods
       THEN \/ Parse(last[c].buf).ok
            \/ ~StartsWith(Parse(last[c].buf).message, MSG_Method)
       ELSE /\ Outcome(last[c].buf) = "Invalid"
            /\ Parse(last[c].buf).message
                 = MSG_Method \o RequestLineTokens(last[c].buf)[1]
            /\ Len(last[c].writes) = 1
            /\ StartsWith(last[c].writes[1], BadRequestStatusLine)

\* C12, its case: a TRACE request was answered with 400.
TraceRejected ==
  \E c \in Conns :
    /\ last[c].ran
    /\ HasSeparator(last[c].buf)
    /\ RequestLineTokens(last[c].buf) = << Str(<<"T","R","A","C","E">>), Str(<<"/">>), Str(<<"H","T","T","P","/","1",".","1">>) >>
    /\ Outcome(last[c].buf) = "Invalid"
    /\ StartsWith(last[c].writes[1], BadRequestStatusLine)

\* C13: A buffer with the separator whose first line does not split into
\* exactly three tokens is rejected as an invalid request line; when a parse
\* succeeds, the three tokens are the method, the path and the version, in
\* that order.
RequestLineHasThreeTokens ==
  \A c \in Conns :
    (last[c].ran /\ HasSeparator(last[c].buf)) =>
      Once({ IF Len(tokens) # 3
             THEN /\ Outcome(last[c].buf) = "Invalid"
                  /\ Parse(last[c].buf).message = MSG_RequestLine
             ELSE Parse(last[c].buf).ok
                  => /\ Parse(last[c].buf).method = tokens[1]
                     /\ Parse(last[c].buf).path = tokens[2]
                     /\ Parse(last[c].buf).httpVersion = tokens[3] :
             tokens \in {RequestLineTokens(last[c].buf)} })

\* C13, its case: a request line with a doubled space (four tokens) was
\* rejected.
DoubledSpaceRejected ==
  \E c \in Conns :
    /\ last[c].ran
    /\ HasSeparator(last[c].buf)
    /\ Len(RequestLineTokens(last[c].buf)) = 4
    /\ Outcome(last[c].buf) = "Invalid"
    /\ Parse(last[c].buf).message = MSG_RequestLine

\* C14: A request with a well-formed request line and a supported method
\* whose transfer-encoding header is chunked is rejected as chunked, whatever
\* its Content-Length and whatever follows the separator.
ChunkedAlwaysRejected ==
  \A c \in Conns :
    ( /\ last[c].ran
      /\ WellFormedLine(last[c].buf)
      /\ SentHeader(last[c].buf, H_transfer_encoding) = Some(V_chunked) )
    => /\ Outcome(last[c].buf) = "Invalid"
       /\ Parse(last[c].buf).message = MSG_Chunked

\* C14, its case: a chunked request with a non-numeric Content-Length and a
\* body was rejected as chunked.
ChunkedWithBadLengthRejected ==
  \E c \in Conns :
    /\ last[c].ran
    /\ WellFormedLine(last[c].buf)
    /\ SentHeader(last[c].buf, H_transfer_encoding) = Some(V_chunked)
    /\ SentHeader(last[c].buf, H_content_length) = Some(Str(<<"a","b","c">>))
    /\ Available(last[c].buf) > 0
    /\ Outcome(last[c].buf) = "Invalid"
    /\ Parse(last[c].buf).message = MSG_Chunked

\* A request the earlier checks let through: well-formed line, supported
\* method, not chunked.
ReachesLengthCheck(buf) ==
  /\ WellFormedLine(buf)
  /\ SentHeader(buf, H_transfer_encoding) # Some(V_chunked)

\* C15: When a content-length header is present with a value (not empty)
\* that is not entirely a decimal integer, such as one that only begins with
\* digits, the request is rejected (as an invalid Content-Length; the
\* formula asks for the rejection alone).
NonNumericLengthRejected ==
  \A c \in Conns :
    ( /\ last[c].ran
      /\ ReachesLengthCheck(last[c].buf)
      /\ Truthy(SentHeader(last[c].buf, H_content_length))
      /\ ~IsInteger(SentHeader(last[c].buf, H_content_length).v) )
    => Outcome(last[c].buf) = "Invalid"

\* C16: A request whose Content-Length is a negative number is rejected:
\* the run answers 400 and does not route the request.
NegativeLengthRejected ==
  \A c \in Conns :
    ( /\ last[c].ran
      /\ ReachesLengthCheck(last[c].buf)
      /\ SentHeader(last[c].buf, H_content_length).defined
      /\ IsInteger(SentHeader(last[c].buf, H_content_length).v)
      /\ SentHeader(last[c].buf, H_content_length).v[1] = 45 )
    => /\ Outcome(last[c].buf) = "Invalid"
       /\ Len(last[c].writes) = 1
       /\ StartsWith(last[c].writes[1], BadRequestStatusLine)

\* C19: After every Complete run the bytes trimmed from the accumulator are
\* at least the header section and the separator, and what stays is what
\* followed them or a suffix of it.
TrimCoversHeaderBlock ==
  \A c \in Conns :
    (last[c].ran /\ Outcome(last[c].buf) = "Complete")
    => /\ TrimmedBy(c) >= IndexOf(last[c].buf, SEPARATOR) + 4
       /\ Len(data[c]) <= Available(last[c].buf)

\* The length the body of a request is cut at: the declared Content-Length,
\* or MAX_BODY_SIZE without the header.
DeclaredEffectiveLength(buf) ==
  Once({ IF Truthy(h) THEN ParseInt(h.v).val ELSE MAX_BODY_SIZE :
         h \in {SentHeader(buf, H_content_length)} })

\* C20: The truncated flag of a parsed request is set exactly when the
\* buffer is longer than the separator's end plus the effective length, and
\* a buffer that long with a valid request in front is not an error.
TruncatedFlagMarksLeftover ==
  \A c \in Conns :
    last[c].ran =>
      Once({ /\ Parse(last[c].buf).ok
                => (Parse(last[c].buf).isTruncated <=> Len(last[c].buf) > boundary)
             /\ ( /\ ReachesLengthCheck(last[c].buf)
                  /\ Truthy(SentHeader(last[c].buf, H_content_length))
                     => /\ IsInteger(SentHeader(last[c].buf, H_content_length).v)
                        /\ SentHeader(last[c].buf, H_content_length).v[1] # 45
                  /\ Len(last[c].buf) > boundary )
                => Outcome(last[c].buf) # "Invalid" :
             boundary \in { IndexOf(last[c].buf, SEPARATOR) + 4
                              + DeclaredEffectiveLength(last[c].buf) } })

(***************************************************************************)
(* Properties of the encoder, over the recorded call of generateResponse.  *)
(***************************************************************************)

\* The bytes of the body passed to the call.
EncodedBody == IF encoded.body.isString THEN Utf8Encode(encoded.body.v) ELSE encoded.body.v

\* Whether the caller's mapping has the name, and the value it gives it.
Supplied(name) ==
  \E i \in 1..Len(encoded.customHeaders) : encoded.customHeaders[i][1] = name

SuppliedValue(name) ==
  encoded.customHeaders[CHOOSE i \in 1..Len(encoded.customHeaders) :
                          encoded.customHeaders[i][1] = name][2]

\* The header line of a default: the caller's value when the caller's
\* mapping has the name, else the default value.
DefaultLine(name, value) ==
  name \o COLON_SPACE \o (IF Supplied(name) THEN SuppliedValue(name) ELSE value)

\* The header line of a caller's entry.
SuppliedLine(e) == e[1] \o COLON_SPACE \o e[2]

\* The caller's headers other than the two defaults, as header lines in the
\* order supplied.
OtherSuppliedLines ==
  LET IsOther(e) == e[1] \notin {N_Content_Length, N_Content_Type}
      others == SelectSeq(encoded.customHeaders, IsOther)
  IN  [i \in 1..Len(others) |-> SuppliedLine(others[i])]

\* A caller's header name that is a decimal numeral without a leading zero,
\* of at most nine digits (every such numeral is an array index).
NumeralName(name) ==
  /\ name # <<>>
  /\ \A i \in 1..Len(name) : name[i] \in 48..57
  /\ name = <<48>> \/ name[1] # 48
  /\ Len(name) <= 9

\* The caller's headers with numeral names, as header lines in ascending
\* order of the numeral; and the caller's remaining headers other than the
\* two defaults, in the order supplied.
NumeralSuppliedLines ==
  LET numerals == { i \in 1..Len(encoded.customHeaders) :
                      NumeralName(encoded.customHeaders[i][1]) }
      Rank(i) == Cardinality({ j \in numerals :
                    DigitsValue(encoded.customHeaders[j][1])
                      <= DigitsValue(encoded.customHeaders[i][1]) })
  IN  [r \in 1..Cardinality(numerals) |->
         SuppliedLine(encoded.customHeaders[CHOOSE i \in numerals : Rank(i) = r])]

NamedSuppliedLines ==
  LET IsNamed(e) == /\ e[1] \notin {N_Content_Length, N_Content_Type}
                    /\ ~NumeralName(e[1])
      named == SelectSeq(encoded.customHeaders, IsNamed)
  IN  [i \in 1..Len(named) |-> SuppliedLine(named[i])]

\* The bytes of the response after its status line.
AfterStatusLine ==
  SliceFrom(encoded.response, IndexOf(encoded.response, CRLF) + 2)

ComputedLength == IntToStr(Len(EncodedBody))

BodyFollowsFirstBlankLine ==
  encoded.called =>
    /\ BodyOf(encoded.response) = EncodedBody
    /\ ~Supplied(N_Content_Length)
       => HasLine(encoded.response,
                  N_Content_Length \o COLON_SPACE
                    \o IntToStr(Len(BodyOf(encoded.response))))

\* The first line of the response: the bytes before its first CR LF.
StatusLineOf(response) == SubSeq(response, 1, IndexOf(response, CRLF))

\* The reason phrases of the status line.
ClaimedReason(statusCode) ==
  CASE statusCode = 200 -> Str(<<"O","K">>)
    [] statusCode = 400 -> Str(<<"B","a","d"," ","R","e","q","u","e","s","t">>)
    [] statusCode = 404 -> Str(<<"N","o","t"," ","F","o","u","n","d">>)
    [] statusCode = 500 -> Str(<<"I","n","t","e","r","n","a","l"," ","S","e","r","v","e","r"," ","E","r","r","o","r">>)
    [] OTHER -> Str(<<"O","K">>)

\* C23: The status line of every encoded response is 'HTTP/1.1', the status
\* code and the reason, separated by single spaces; the reason is OK for
\* 200, Bad Request for 400, Not Found for 404, Internal Server Error for
\* 500 and OK for every other code.
StatusLineHasCodeAndReason ==
  encoded.called =>
    StatusLineOf(encoded.response)
      = Utf8Encode(Str(<<"H","T","T","P","/","1",".","1"," ">>) \o IntToStr(encoded.statusCode) \o Str(<<" ">>)
                     \o ClaimedReason(encoded.statusCode))

\* C23, its case: a response encoded with status 201, a code without a
\* reason of its own, begins with the line 'HTTP/1.1 201 OK'.
UnlistedCodeGetsOK ==
  /\ encoded.called
  /\ encoded.statusCode = 201
  /\ StatusLineOf(encoded.response) = Str(<<"H","T","T","P","/","1",".","1"," ","2","0","1"," ","O","K">>)
  /\ SubSeq(encoded.response, 16, 17) = CRLF

(***************************************************************************)
(* Properties of header parsing, over the recorded call of parse and read  *)
(* from its input.                                                         *)
(***************************************************************************)

\* The text of the input, and the header lines it carries before its
\* separator.
InputText ==
  IF decoded.input.isString THEN decoded.input.v ELSE Utf8Decode(decoded.input.v)

InputLines ==
  Tail(Split(SubSeq(InputText, 1, IndexOf(InputText, SEPARATOR)), CRLF))

\* The header lines of the input that are not blank or whitespace-only and
\* have text before their first colon.  (A line that begins with a colon
\* has no name to store it under; the reduce drops it.)
SentKeyedLines ==
  SelectSeq(InputLines, LAMBDA line : Trim(line) # <<>> /\ IndexOf(line, COLON) # 0)

\* What a sequence of header lines stores under a name: the value of the
\* last line with that name, or undefined.
StoredBy(lines, name) ==
  IF \E i \in 1..Len(lines) : SentName(lines[i]) = name
  THEN Some(SentValue(lines[Greatest({ i \in 1..Len(lines) : SentName(lines[i]) = name })]))
  ELSE Undefined

\* The headers of the parsed request and the getHeader lookups are those the
\* lines store.
HeadersAre(lines) ==
  /\ DOMAIN decoded.parser.headers = { SentName(lines[i]) : i \in 1..Len(lines) }
  /\ \A name \in DOMAIN decoded.parser.headers :
       Some(decoded.parser.headers[name]) = StoredBy(lines, name)
  /\ \A key \in LookupKeys : decoded.lookups[key] = StoredBy(lines, ToLowerCase(key))

\* C21: Blank or whitespace-only header lines are skipped; every other line
\* is split at its first colon into a name, lowercased and trimmed, and a
\* value, everything after that colon trimmed; the value stored for a name
\* is that of its last line; lookup by name ignores letter case and gives
\* the stored value, or undefined for a name no line has.
HeaderLinesStoredLastWins ==
  (decoded.called /\ decoded.parser.ok) => HeadersAre(SentKeyedLines)

(***************************************************************************)
(* Properties of the connections taken together.                           *)
(***************************************************************************)

\* A step touches one connection: the accumulator, the accepted responses
\* and the socket of every other connection stay as they are, and a run of
\* the handler on the connection works on its own accumulator followed by
\* the chunk it received.
TouchesOnly(c) ==
  /\ \A d \in Conns \ {c} :
       /\ data'[d] = data[d]
       /\ out'[d] = out[d]
       /\ sock'[d] = sock[d]
       /\ last'[d] = last[d]
  /\ last'[c] # last[c]
       => \E chunk \in Chunks : last'[c].buf = data[c] \o chunk.bytes

\* A connection that received nothing has an empty accumulator and no
\* response, and the handler has not ended its socket: the socket is as its
\* own peer left it (not yet accepted, open, ended by the peer's FIN, or
\* destroyed by the peer's reset).
IdleConnectionsUntouched ==
  \A c \in Conns :
    ~last[c].ran =>
      /\ data[c] = <<>>
      /\ out[c] = <<>>
      /\ sock[c] # "failing"
      /\ sock[c] = "ended" => budget[c] = 0

\* C22: Under every interleaving of data events, the bytes received on one
\* connection change only that connection's accumulator and cause responses
\* and closes only on its socket; no other connection's accumulator,
\* responses or socket state is affected.
ConnectionsIsolated ==
  /\ []IdleConnectionsUntouched
  /\ [][\E c \in Conns : TouchesOnly(c)]_vars

\* C22, its case: after the data events of both connections, the first was
\* answered 400 and keeps its bytes in its accumulator, while the second
\* was answered 200 once and has an empty accumulator.
RejectedBesideAnsweredConnection ==
  /\ budget[1] = 0 /\ budget[2] = 0
  /\ last[1].ran /\ last[2].ran
  /\ data[1] # <<>>
  /\ Len(out[1]) >= 1 /\ StartsWith(out[1][Len(out[1])].bytes, BadRequestStatusLine)
  /\ data[2] = <<>>
  /\ Len(out[2]) = 1 /\ StartsWith(out[2][1].bytes, Str(<<"H","T","T","P","/","1",".","1"," ","2","0","0"," ","O","K">>))

\* C24: The parser and the handler agree on where the body starts: whenever
\* parse succeeds on the accumulator, the offset it extracts the body from
\* is the byte offset of the separator plus 4, and the handler, its length
\* check passed, writes a response.
ParserAndHandlerAgreeOnBodyStart ==
  \A c \in Conns :
    (last[c].ran /\ Parse(last[c].buf).ok) =>
      /\ Parse(last[c].buf).bodyStart = IndexOf(last[c].buf, SEPARATOR) + 4
      /\ Len(last[c].writes) = 1

====
